---- MODULE Spec2Model ----
(***************************************************************************)
(* Format detection of the three layout-API scripts.                       *)
(*                                                                         *)
(* A content string is a sequence of characters; a character is a string   *)
(* of length one, except two characters written by code point: "U+0131"   *)
(* is the non-ASCII letter LATIN SMALL LETTER DOTLESS I and "U+0060" is    *)
(* the backtick.  An indicator is a sequence of characters too, and        *)
(* "indicator in content" is substring search.                             *)
(***************************************************************************)
EXTENDS Integers, Sequences, FiniteSets, TLC

\* Largest number of fragments the analysed content is built from.
MaxPieces == 3

\* The three scripts, by file name.
Checker == "output-checker-layout-api.py"
Api2 == "test_layout_api2.py"
Api == "test_layout_api.py"
Scripts == {Checker, Api2, Api}

-----------------------------------------------------------------------------
(* Strings *)

\* Python: needle in hay
Contains(hay, needle) ==
    \E i \in 0..(Len(hay) - Len(needle)) :
        SubSeq(hay, i + 1, i + Len(needle)) = needle

UpperAZ == <<"A","B","C","D","E","F","G","H","I","J","K","L","M",
             "N","O","P","Q","R","S","T","U","V","W","X","Y","Z">>
LowerAZ == <<"a","b","c","d","e","f","g","h","i","j","k","l","m",
             "n","o","p","q","r","s","t","u","v","w","x","y","z">>

IndexIn(seq, ch) == CHOOSE i \in 1..Len(seq) : seq[i] = ch
IsUpperAZ(ch) == \E i \in 1..Len(UpperAZ) : UpperAZ[i] = ch
IsLowerAZ(ch) == \E i \in 1..Len(LowerAZ) : LowerAZ[i] = ch

\* Python: str.lower() on one character.  A-Z map to a-z; U+0131 is a
\* lowercase letter already and stays; everything else has no case.
LowerChar(ch) ==
    IF IsUpperAZ(ch) THEN LowerAZ[IndexIn(UpperAZ, ch)] ELSE ch

\* Faulty variant: the HTML scan reads the content as it is.
lower_missing(content) == content
\* Python: content.lower()
lower(content) == [i \in 1..Len(content) |-> LowerChar(content[i])]

\* Faulty variant: every occurrence of an indicator counts.
CountOccurrences(indicators, text) ==
    LET Occ(needle) ==
            Cardinality({i \in 0..(Len(text) - Len(needle)) :
                            SubSeq(text, i + 1, i + Len(needle)) = needle})
        Sum[k \in 0..Len(indicators)] ==
            IF k = 0 THEN 0 ELSE Sum[k - 1] + Occ(indicators[k])
    IN Sum[Len(indicators)]
\* Python: sum(1 for indicator in indicators if indicator in text)
CountPresent(indicators, text) ==
    Cardinality({k \in 1..Len(indicators) : Contains(text, indicators[k])})

-----------------------------------------------------------------------------
(* Indicator lists *)

html_indicators_7 ==
    << <<"<","h","t","m","l",">">>, <<"<","d","i","v",">">>, <<"<","p",">">>,
       <<"<","t","a","b","l","e",">">>, <<"<","t","r",">">>, <<"<","t","d",">">>,
       <<"<","s","p","a","n",">">> >>
html_indicators_9 ==
    html_indicators_7 \o << <<"<","h","1",">">>, <<"<","h","2",">">> >>

markdown_indicators_8 ==
    << <<"#"," ">>, <<"#","#"," ">>, <<"#","#","#"," ">>, <<"*","*">>, <<"*">>,
       <<"-"," ">>, <<"1","."," ">>, <<"|">> >>
markdown_indicators_9 ==
    markdown_indicators_8 \o << <<"U+0060","U+0060","U+0060">> >>

json_indicators_5 ==
    << <<"{">>, <<"}">>, <<"\"",":">>, <<"[","\"">>, <<"\"","]">> >>

-----------------------------------------------------------------------------
(* _detect_format *)

\* html_count = sum(1 for indicator in html_indicators if indicator in content_lower)
html_count_9(content) == CountPresent(html_indicators_9, lower(content))
html_count_7(content) == CountPresent(html_indicators_7, lower(content))
\* markdown_count = sum(1 for indicator in markdown_indicators if indicator in content)
markdown_count_9(content) == CountPresent(markdown_indicators_9, content)
markdown_count_8(content) == CountPresent(markdown_indicators_8, content)
\* json_count = sum(1 for indicator in json_indicators if indicator in content)
json_count_5(content) == CountPresent(json_indicators_5, content)

\* Faulty variants: thresholds off by one.
HtmlDetected_AtLeastZero(n) == n >= 0
MarkdownDetected_AboveThree(n) == n > 3
MarkdownDetected_AtLeastTwo(n) == n >= 2
JsonDetected_AboveFour(n) == n > 4
JsonDetected_AtLeastThree(n) == n >= 3
\* if html_count > 0 / elif markdown_count > 2 / elif json_count > 3
HtmlDetected(n) == n > 0
MarkdownDetected(n) == n > 2
JsonDetected(n) == n > 3

\* Python's None
None == << >>

\* Faulty variant: the final else is missing, so the function falls off its end.
detect_format_checker_no_else(content) ==
    IF HtmlDetected(html_count_9(content))
    THEN <<"HTML (indicators: ", html_count_9(content), ")">>
    ELSE IF MarkdownDetected(markdown_count_9(content))
    THEN <<"Markdown (indicators: ", markdown_count_9(content), ")">>
    ELSE IF JsonDetected(json_count_5(content))
    THEN <<"JSON (indicators: ", json_count_5(content), ")">>
    ELSE None

\* An f-string is the sequence of its literal parts and interpolated values.
\* output-checker-layout-api.py
detect_format_checker(content) ==
    IF HtmlDetected(html_count_9(content))
    THEN <<"HTML (indicators: ", html_count_9(content), ")">>
    ELSE IF MarkdownDetected(markdown_count_9(content))
    THEN <<"Markdown (indicators: ", markdown_count_9(content), ")">>
    ELSE IF JsonDetected(json_count_5(content))
    THEN <<"JSON (indicators: ", json_count_5(content), ")">>
    ELSE <<"Plain text">>

\* test_layout_api2.py
detect_format_api2(content) ==
    IF HtmlDetected(html_count_9(content))
    THEN <<"HTML (indicadores: ", html_count_9(content), ")">>
    ELSE IF MarkdownDetected(markdown_count_9(content))
    THEN <<"Markdown (indicadores: ", markdown_count_9(content), ")">>
    ELSE IF JsonDetected(json_count_5(content))
    THEN <<"JSON (indicadores: ", json_count_5(content), ")">>
    ELSE <<"Texto plano">>

\* test_layout_api.py: seven HTML and eight Markdown indicators, no JSON
detect_format_api(content) ==
    IF HtmlDetected(html_count_7(content))
    THEN <<"HTML (indicadores: ", html_count_7(content), ")">>
    ELSE IF MarkdownDetected(markdown_count_8(content))
    THEN <<"Markdown (indicadores: ", markdown_count_8(content), ")">>
    ELSE <<"Texto plano">>

\* self._detect_format(content) of the script that runs
detect_format(script, content) ==
    CASE script = Checker -> detect_format_checker(content)
      [] script = Api2 -> detect_format_api2(content)
      [] script = Api -> detect_format_api(content)

\* The counters the call computes on the way (its local variables).
local_counts(script, content) ==
    IF script = Api
    THEN [html |-> html_count_7(content), markdown |-> markdown_count_8(content)]
    ELSE [html |-> html_count_9(content), markdown |-> markdown_count_9(content),
          json |-> json_count_5(content)]

\* The indicator lists of the script that runs.
html_indicators(script) ==
    IF script = Api THEN html_indicators_7 ELSE html_indicators_9
markdown_indicators(script) ==
    IF script = Api THEN markdown_indicators_8 ELSE markdown_indicators_9
json_indicators(script) ==
    IF script = Api THEN << >> ELSE json_indicators_5

-----------------------------------------------------------------------------
(* The content the service returns *)

\* Fragments of document text: tags, Markdown marks, JSON punctuation.
Pieces ==
    { <<"<","p",">">>, <<"<","h","1",">">>, <<"<","d","U+0131","v",">">>,
      <<"#"," ","-"," ","*">>, <<"-"," ","*">>,
      <<"{","\"",":","[","\"">>, <<"}">> }

RECURSIVE Flatten(_)
Flatten(ps) == IF ps = << >> THEN << >> ELSE Head(ps) \o Flatten(Tail(ps))

Inputs == { Flatten(ps) : ps \in UNION { [1..n -> Pieces] : n \in 0..MaxPieces } }

-----------------------------------------------------------------------------
(* State *)

VARIABLES
    script,           \* the script that runs
    content,          \* result.content, the text to classify
    pc,               \* "call": _detect_format is about to run; "returned"
    counts,           \* the local counters of the last call
    format_detected,  \* what the last call returned; None before any call
    prev,             \* content, counters and result of the call before an edit
    edit              \* how content was derived from prev.content

\* The state of run_format_comparison and of the analyze_document call it makes.
VARIABLES
    apc,              \* the statement that runs next; "idle" outside a comparison
    output_format,    \* the output_format argument of the current call
    attempted,        \* the formats analyze_document was called with, in order
    requests,         \* the begin_analyze_document calls of the current call
    steps_ok,         \* the statements of the current call that succeeded
    failed_step,      \* the statement of the current call that raised, or "none"
    result,           \* poller.result(), None before
    report,           \* the report of the current call, None before
    files,            \* the files written under results/
    results,          \* run_format_comparison's results dict
    summary           \* the comparison summary lines, by format

avars == <<apc, output_format, attempted, requests, steps_ok, failed_step,
           result, report, files, results, summary>>

vars == <<script, content, pc, counts, format_detected, prev, edit, avars>>

NoCounts == [html |-> 0, markdown |-> 0]
NoPrev == [content |-> << >>, counts |-> NoCounts, format_detected |-> None]
NoEdit == [kind |-> "none"]

\* A dict with no keys
EmptyDict == [k \in {} |-> None]

\* No comparison is running.
AnalyzeIdle ==
    /\ apc = "idle"
    /\ output_format = "default"
    /\ attempted = << >>
    /\ requests = << >>
    /\ steps_ok = {}
    /\ failed_step = "none"
    /\ result = None
    /\ report = None
    /\ files = EmptyDict
    /\ results = EmptyDict
    /\ summary = EmptyDict

Init ==
    /\ script \in Scripts
    /\ content \in Inputs
    /\ pc = "call"
    /\ counts = NoCounts
    /\ format_detected = None
    /\ prev = NoPrev
    /\ edit = NoEdit
    /\ AnalyzeIdle

\* format_detected = self._detect_format(content)
Detect ==
    /\ pc = "call"
    /\ counts' = local_counts(script, content)
    /\ format_detected' = detect_format(script, content)
    /\ pc' = "returned"
    /\ UNCHANGED <<script, content, prev, edit, avars>>

Snapshot == [content |-> content, counts |-> counts,
             format_detected |-> format_detected]

\* Python: indicator in content_lower (HTML) / indicator in content (others)
Present(kind, ind, text) ==
    IF kind = "html" THEN Contains(lower(text), ind) ELSE Contains(text, ind)

Range(seq) == { seq[i] : i \in 1..Len(seq) }
IndicatorsOf(kind, s) ==
    CASE kind = "html" -> Range(html_indicators(s))
      [] kind = "markdown" -> Range(markdown_indicators(s))
      [] kind = "json" -> Range(json_indicators(s))

\* What may stand between the content and the repeated indicator:
\* nothing, or a line break.
Separators == { << >>, <<"\n">> }

\* The same document with one indicator that already occurs in it
\* occurring once more, at the end; then it is classified again.
RepeatIndicator ==
    /\ pc = "returned"
    /\ edit = NoEdit
    /\ \E kind \in {"html", "markdown", "json"}, sep \in Separators :
         \E ind \in IndicatorsOf(kind, script) :
            /\ Present(kind, ind, content)
            /\ content' = content \o sep \o ind
            /\ edit' = [kind |-> "repeat", format |-> kind,
                        indicator |-> ind, sep |-> sep]
    /\ prev' = Snapshot
    /\ pc' = "call"
    /\ UNCHANGED <<script, counts, format_detected, avars>>

\* Python: str.swapcase() on one character ('ı'.swapcase() == 'I').
SwapCaseChar(ch) ==
    IF IsUpperAZ(ch) THEN LowerAZ[IndexIn(UpperAZ, ch)]
    ELSE IF IsLowerAZ(ch) THEN UpperAZ[IndexIn(LowerAZ, ch)]
    ELSE IF ch = "U+0131" THEN "I"
    ELSE ch
IsLetter(ch) == IsUpperAZ(ch) \/ IsLowerAZ(ch) \/ ch = "U+0131"
IsAsciiLetter(ch) == IsUpperAZ(ch) \/ IsLowerAZ(ch)

\* The same document with the case of some of its letters changed;
\* then it is classified again.
ChangeCase ==
    /\ pc = "returned"
    /\ edit = NoEdit
    /\ \E S \in SUBSET { i \in 1..Len(content) : IsLetter(content[i]) } :
         /\ S # {}
         /\ content' = [i \in 1..Len(content) |->
                           IF i \in S THEN SwapCaseChar(content[i]) ELSE content[i]]
         /\ edit' = [kind |-> "case",
                     ascii |-> \A i \in S : IsAsciiLetter(content[i])]
    /\ prev' = Snapshot
    /\ pc' = "call"
    /\ UNCHANGED <<script, counts, format_detected, avars>>

Next == Detect \/ RepeatIndicator \/ ChangeCase

Spec == Init /\ [][Next]_vars

-----------------------------------------------------------------------------
(* Reading a state *)

Returned == pc = "returned"

\* The label a returned string stands for.
LabelOf(r) ==
    IF r = None THEN "None"
    ELSE CASE r[1] \in {"HTML (indicators: ", "HTML (indicadores: "} -> "HTML"
           [] r[1] \in {"Markdown (indicators: ", "Markdown (indicadores: "} -> "Markdown"
           [] r[1] \in {"JSON (indicators: ", "JSON (indicadores: "} -> "JSON"
           [] r[1] \in {"Plain text", "Texto plano"} -> "PlainText"
           [] OTHER -> "None"
Label == LabelOf(format_detected)

\* The returned string reports a count / the count it reports.
HasCount(r) == Len(r) = 3
CountOf(r) == r[2]

\* The number of distinct indicators of a format that occur in the content
\* (for HTML: in any letter case).
DistinctPresent(kind) ==
    LET text == IF kind = "html" THEN lower(content) ELSE content
    IN  Cardinality({ ind \in IndicatorsOf(kind, script) : Contains(text, ind) })
TracksJson == script # Api

\* The strings a script can return.
ValidResults(s) ==
    LET word == IF s = Checker THEN "indicators" ELSE "indicadores"
        of(label, n) == <<label \o " (" \o word \o ": ", n, ")">>
    IN  { of("HTML", n) : n \in 1..Len(html_indicators(s)) }
        \cup { of("Markdown", n) : n \in 3..Len(markdown_indicators(s)) }
        \cup { of("JSON", n) : n \in 4..Len(json_indicators(s)) }
        \cup { <<IF s = Checker THEN "Plain text" ELSE "Texto plano">> }

-----------------------------------------------------------------------------
(* Claims *)

\* C1: in every script, content in which one of the nine HTML indicators
\* <html>, <div>, <p>, <table>, <tr>, <td>, <span>, <h1>, <h2> occurs is
\* labelled HTML, whatever the Markdown and JSON counts are.
C1_SpecHtmlIndicatorForcesHtml ==
    (Returned /\ \E ind \in Range(html_indicators_9) : Contains(content, ind))
        => Label = "HTML"

\* C2: with no HTML indicator present and a Markdown indicator count greater
\* than 2, the label is Markdown, whatever the JSON count is.
C2_MarkdownAboveTwo ==
    (Returned /\ DistinctPresent("html") = 0 /\ DistinctPresent("markdown") > 2)
        => Label = "Markdown"
C2_Witness ==
    /\ Returned
    /\ script = Checker
    /\ DistinctPresent("html") = 0
    /\ DistinctPresent("markdown") = 3
    /\ DistinctPresent("json") = 4
    /\ Label = "Markdown"

\* C3 as stated: with no HTML indicator present and exactly 2 Markdown
\* indicators present, the label is PlainText, whatever else the content holds.
C3_TwoMarkdownIsPlainText ==
    (Returned /\ DistinctPresent("html") = 0 /\ DistinctPresent("markdown") = 2)
        => Label = "PlainText"
\* C3 as amended: with no HTML indicator present, exactly 2 Markdown indicators
\* present and, where the script counts JSON indicators, at most 3 of them
\* present, the label is PlainText.
C3_TwoMarkdownLowJsonIsPlainText ==
    (/\ Returned
     /\ DistinctPresent("html") = 0
     /\ DistinctPresent("markdown") = 2
     /\ (TracksJson => DistinctPresent("json") <= 3))
        => Label = "PlainText"
C3_Witness ==
    /\ Returned
    /\ script = Checker
    /\ DistinctPresent("html") = 0
    /\ DistinctPresent("markdown") = 2
    /\ DistinctPresent("json") = 3
    /\ Label = "PlainText"

\* C4: where a JSON count is tracked, with no HTML indicator present, at most
\* 2 Markdown indicators present and a JSON indicator count greater than 3,
\* the label is JSON.
C4_JsonAboveThree ==
    (/\ Returned
     /\ TracksJson
     /\ DistinctPresent("html") = 0
     /\ DistinctPresent("markdown") <= 2
     /\ DistinctPresent("json") > 3)
        => Label = "JSON"
C4_Witness ==
    /\ Returned
    /\ DistinctPresent("html") = 0
    /\ DistinctPresent("markdown") = 2
    /\ DistinctPresent("json") = 4
    /\ Label = "JSON"

\* C5: the label is PlainText exactly when the HTML count is 0, the Markdown
\* count is at most 2 and the JSON count (where the script has one) is at
\* most 3.
C5_PlainTextExactlyBelowThresholds ==
    Returned =>
        (Label = "PlainText" <=>
            (/\ counts.html = 0
             /\ counts.markdown <= 2
             /\ ("json" \in DOMAIN counts => counts.json <= 3)))
C5_Witness ==
    /\ Returned
    /\ script = Api2
    /\ counts.html = 0
    /\ counts.markdown = 2
    /\ counts.json = 3
    /\ Label = "PlainText"

KindOf(label) ==
    CASE label = "HTML" -> "html"
      [] label = "Markdown" -> "markdown"
      [] label = "JSON" -> "json"
ThresholdOf(label) ==
    CASE label = "HTML" -> 0
      [] label = "Markdown" -> 2
      [] label = "JSON" -> 3
CountedLabels == {"HTML", "Markdown", "JSON"}

\* For a label HTML, Markdown or JSON the reported count is the number of
\* distinct indicators of that format that occur in the content (for HTML:
\* in any letter case), above the format's threshold and at most the length
\* of the format's list.
ReportedCountIsDistinctPresent ==
    (Returned /\ Label \in CountedLabels)
        => (/\ HasCount(format_detected)
            /\ CountOf(format_detected) = DistinctPresent(KindOf(Label))
            /\ CountOf(format_detected) > ThresholdOf(Label)
            /\ CountOf(format_detected)
                  <= Cardinality(IndicatorsOf(KindOf(Label), script)))

\* C7 as stated: the reported count is the number of distinct indicators of
\* the label's format that occur in the content, within the format's range,
\* and repeating an indicator of that format that already occurs leaves the
\* reported count as it was.
C7_CountUnchangedByAnyRepeat ==
    /\ ReportedCountIsDistinctPresent
    /\ (/\ Returned
        /\ edit.kind = "repeat"
        /\ LabelOf(prev.format_detected) \in CountedLabels
        /\ edit.format = KindOf(LabelOf(prev.format_detected)))
            => format_detected = prev.format_detected
\* C7 as amended: the same, for an indicator repeated on a new line; an
\* indicator repeated right behind the content can complete another
\* indicator ("*" behind "*" makes "**") and raise the count.
C7_CountUnchangedByRepeatOnNewLine ==
    /\ ReportedCountIsDistinctPresent
    /\ (Returned /\ edit.kind = "repeat" /\ edit.sep = <<"\n">>)
            => (format_detected = prev.format_detected /\ counts = prev.counts)
C7_Witness ==
    /\ Returned
    /\ edit.kind = "repeat"
    /\ edit.sep = <<"\n">>
    /\ edit.indicator = <<"*">>
    /\ Label = "Markdown"
    /\ CountOf(format_detected) = 3
    /\ format_detected = prev.format_detected

\* C8: for every content, the empty one included, what the call returns is
\* one of the script's result strings, which stands for exactly one of the
\* labels HTML, Markdown, JSON, PlainText; it is never None or anything else.
C8_AlwaysReturnsOneLabel ==
    Returned => (/\ format_detected \in ValidResults(script)
                 /\ Label \in CountedLabels \cup {"PlainText"})
C8_Witness ==
    /\ Returned
    /\ content = << >>
    /\ script = Api
    /\ format_detected = <<"Texto plano">>

\* C10 as stated: changing the case of any letters of the content leaves the
\* HTML, Markdown and JSON counts and the label as they were.
C10_CaseChangeKeepsCounts ==
    (Returned /\ edit.kind = "case")
        => (counts = prev.counts /\ Label = LabelOf(prev.format_detected))
\* C10 as amended: changing the case of any ASCII letters (A-Z, a-z) of the
\* content leaves the HTML, Markdown and JSON counts and the label as they
\* were.  (A non-ASCII letter whose other case is ASCII can make a tag:
\* "<dU+0131v>" has no HTML indicator, its upper case "<DIV>" has one.)
C10_AsciiCaseChangeKeepsCounts ==
    (Returned /\ edit.kind = "case" /\ edit.ascii)
        => (counts = prev.counts /\ Label = LabelOf(prev.format_detected))
C10_Witness ==
    /\ Returned
    /\ edit.kind = "case"
    /\ edit.ascii
    /\ content = <<"<","P",">">>
    /\ prev.content = <<"<","p",">">>
    /\ counts.html = 1
    /\ Label = "HTML"

-----------------------------------------------------------------------------
(* analyze_document and run_format_comparison                              *)
(* (output-checker-layout-api.py and test_layout_api2.py)                  *)

\* test_documents[0], and os.path.basename(document_path).split('.')[0]
DocumentPath == "test_documents/Azure AI Agents.pdf"
Filename == "Azure AI Agents"

formats_to_test == <<"default", "markdown", "text", "html">>

\* analyze_params, without the open file
analyze_params(fmt) ==
    IF fmt \in {"markdown", "text", "html"}
    THEN [model_id |-> "prebuilt-layout",
          content_type |-> "application/octet-stream",
          output_content_format |-> fmt]
    ELSE [model_id |-> "prebuilt-layout",
          content_type |-> "application/octet-stream"]
\* the arguments of the fallback call
default_params ==
    [model_id |-> "prebuilt-layout", content_type |-> "application/octet-stream"]

\* What the service may answer: text in some format, or a result without text.
ServiceContents == { <<"<","p",">">>, <<"#"," ","-"," ","*">>, <<"}">> }
ServiceResults ==
    { [content |-> c, content_is_none |-> FALSE] : c \in ServiceContents }
    \cup { [content |-> << >>, content_is_none |-> TRUE] }

\* Python: word in format_detected
InDetected(word, fd) ==
    fd[1] \in { word \o " (indicators: ", word \o " (indicadores: " }

\* _create_report, without the timestamp and the content excerpts
create_report(document_path, text, detected, requested_format) ==
    [file |-> document_path,
     requested_format |-> requested_format,
     format_detected |-> detected,
     length |-> Len(text),
     analysis |-> IF InDetected("HTML", detected) THEN "HTML"
                  ELSE IF InDetected("Markdown", detected) THEN "Markdown"
                  ELSE IF InDetected("JSON", detected) THEN "JSON"
                  ELSE "Plain text or unidentified format"]

\* f"results/{filename}_{output_format}_content.md" and ..._report.md
content_file(fmt) == <<"results/", Filename, "_", fmt, "_content.md">>
report_file(fmt) == <<"results/", Filename, "_", fmt, "_report.md">>

\* Faulty variant: _save_results is called after the try statement, so what
\* it raises leaves analyze_document and run_format_comparison.
handler_save_outside_try(step) ==
    IF step \in {"makedirs", "write_content", "write_report"}
    THEN "propagated" ELSE "except"
\* Where an exception raised by a statement of analyze_document is handled:
\* every statement stands inside try ... except Exception.
handler(step) == "except"

\* Faulty variant: the fallback request is sent again when it raises.
on_fallback_error_retry == "fallback"
\* Where control goes when the first request raises, and when the fallback
\* request raises.
on_param_error == "fallback"
on_fallback_error == handler("request")

InitAnalyze ==
    /\ script \in {Checker, Api2}
    /\ content = << >>
    /\ pc = "call"
    /\ counts = NoCounts
    /\ format_detected = None
    /\ prev = NoPrev
    /\ edit = NoEdit
    /\ apc = "loop"
    /\ output_format = "default"
    /\ attempted = << >>
    /\ requests = << >>
    /\ steps_ok = {}
    /\ failed_step = "none"
    /\ result = None
    /\ report = None
    /\ files = EmptyDict
    /\ results = EmptyDict
    /\ summary = EmptyDict

\* for fmt in formats_to_test: result = self.analyze_document(document_path, fmt)
CallAnalyze ==
    /\ apc = "loop"
    /\ Len(attempted) < Len(formats_to_test)
    /\ output_format' = formats_to_test[Len(attempted) + 1]
    /\ attempted' = Append(attempted, formats_to_test[Len(attempted) + 1])
    /\ requests' = << >>
    /\ steps_ok' = {}
    /\ failed_step' = "none"
    /\ result' = None
    /\ report' = None
    /\ content' = << >>
    /\ counts' = NoCounts
    /\ format_detected' = None
    /\ pc' = "call"
    /\ apc' = "open"
    /\ UNCHANGED <<script, prev, edit, files, results, summary>>

\* with open(document_path, "rb") as f:
OpenDocument ==
    /\ apc = "open"
    /\ \E ok \in BOOLEAN :
         IF ok
         THEN /\ steps_ok' = steps_ok \cup {"open"}
              /\ apc' = "request"
              /\ UNCHANGED failed_step
         ELSE /\ failed_step' = "open"
              /\ apc' = handler("open")
              /\ UNCHANGED steps_ok
    /\ UNCHANGED <<script, content, pc, counts, format_detected, prev, edit,
                   output_format, attempted, requests, result, report, files,
                   results, summary>>

\* poller = self.client.begin_analyze_document(**analyze_params)
FirstRequest ==
    /\ apc = "request"
    /\ \E ok \in BOOLEAN :
         /\ requests' = Append(requests,
                [params |-> analyze_params(output_format), raised |-> ~ok])
         /\ IF ok
            THEN /\ steps_ok' = steps_ok \cup {"request"}
                 /\ apc' = "result"
            ELSE /\ apc' = on_param_error
                 /\ UNCHANGED steps_ok
    /\ UNCHANGED <<script, content, pc, counts, format_detected, prev, edit,
                   output_format, attempted, failed_step, result, report, files,
                   results, summary>>

\* except Exception as param_error: poller = self.client.begin_analyze_document(
\*     "prebuilt-layout", analyze_request=f, content_type=...)
FallbackRequest ==
    /\ apc = "fallback"
    /\ \E ok \in BOOLEAN :
         /\ requests' = Append(requests, [params |-> default_params, raised |-> ~ok])
         /\ IF ok
            THEN /\ steps_ok' = steps_ok \cup {"request"}
                 /\ apc' = "result"
                 /\ UNCHANGED failed_step
            ELSE /\ failed_step' = "request"
                 /\ apc' = on_fallback_error
                 /\ UNCHANGED steps_ok
    /\ UNCHANGED <<script, content, pc, counts, format_detected, prev, edit,
                   output_format, attempted, result, report, files, results,
                   summary>>

\* result = poller.result()
WaitResult ==
    /\ apc = "result"
    /\ \/ /\ \E r \in ServiceResults : result' = r
          /\ steps_ok' = steps_ok \cup {"result"}
          /\ apc' = "detect"
          /\ UNCHANGED failed_step
       \/ /\ failed_step' = "result"
          /\ apc' = handler("result")
          /\ UNCHANGED <<result, steps_ok>>
    /\ UNCHANGED <<script, content, pc, counts, format_detected, prev, edit,
                   output_format, attempted, requests, report, files, results,
                   summary>>

\* content = result.content; format_detected = self._detect_format(content)
\* (None has no lower(): content.lower() raises)
AnalyzeDetect ==
    /\ apc = "detect"
    /\ IF result.content_is_none
       THEN /\ failed_step' = "detect"
            /\ apc' = handler("detect")
            /\ UNCHANGED <<content, pc, counts, format_detected, steps_ok>>
       ELSE /\ content' = result.content
            /\ counts' = local_counts(script, result.content)
            /\ format_detected' = detect_format(script, result.content)
            /\ pc' = "returned"
            /\ steps_ok' = steps_ok \cup {"detect"}
            /\ apc' = "report"
            /\ UNCHANGED failed_step
    /\ UNCHANGED <<script, prev, edit, output_format, attempted, requests,
                   result, report, files, results, summary>>

\* report = self._create_report(document_path, content, format_detected, output_format)
CreateReport ==
    /\ apc = "report"
    /\ report' = create_report(DocumentPath, content, format_detected, output_format)
    /\ steps_ok' = steps_ok \cup {"report"}
    /\ apc' = "makedirs"
    /\ UNCHANGED <<script, content, pc, counts, format_detected, prev, edit,
                   output_format, attempted, requests, failed_step, result,
                   files, results, summary>>

\* _save_results: os.makedirs("results", exist_ok=True)
MakeDirs ==
    /\ apc = "makedirs"
    /\ \E ok \in BOOLEAN :
         IF ok
         THEN /\ steps_ok' = steps_ok \cup {"makedirs"}
              /\ apc' = "write_content"
              /\ UNCHANGED failed_step
         ELSE /\ failed_step' = "makedirs"
              /\ apc' = handler("makedirs")
              /\ UNCHANGED steps_ok
    /\ UNCHANGED <<script, content, pc, counts, format_detected, prev, edit,
                   output_format, attempted, requests, result, report, files,
                   results, summary>>

\* _save_results: with open(content_file, "w", ...) as f: f.write(content)
WriteContent ==
    /\ apc = "write_content"
    /\ \E ok \in BOOLEAN :
         IF ok
         THEN /\ files' = (content_file(output_format) :> content) @@ files
              /\ steps_ok' = steps_ok \cup {"write_content"}
              /\ apc' = "write_report"
              /\ UNCHANGED failed_step
         ELSE /\ failed_step' = "write_content"
              /\ apc' = handler("write_content")
              /\ UNCHANGED <<files, steps_ok>>
    /\ UNCHANGED <<script, content, pc, counts, format_detected, prev, edit,
                   output_format, attempted, requests, result, report, results,
                   summary>>

\* _save_results: with open(report_file, "w", ...) as f: f.write(report)
WriteReport ==
    /\ apc = "write_report"
    /\ \E ok \in BOOLEAN :
         IF ok
         THEN /\ files' = (report_file(output_format) :> report) @@ files
              /\ steps_ok' = steps_ok \cup {"write_report"}
              /\ apc' = "return"
              /\ UNCHANGED failed_step
         ELSE /\ failed_step' = "write_report"
              /\ apc' = handler("write_report")
              /\ UNCHANGED <<files, steps_ok>>
    /\ UNCHANGED <<script, content, pc, counts, format_detected, prev, edit,
                   output_format, attempted, requests, result, report, results,
                   summary>>

\* return result; and in the caller: results[fmt] = result
ReturnResult ==
    /\ apc = "return"
    /\ results' = (output_format :> result) @@ results
    /\ apc' = "loop"
    /\ UNCHANGED <<script, content, pc, counts, format_detected, prev, edit,
                   output_format, attempted, requests, steps_ok, failed_step,
                   result, report, files, summary>>

\* except Exception as e: return None; and in the caller: results[fmt] = result
ReturnNone ==
    /\ apc = "except"
    /\ results' = (output_format :> None) @@ results
    /\ apc' = "loop"
    /\ UNCHANGED <<script, content, pc, counts, format_detected, prev, edit,
                   output_format, attempted, requests, steps_ok, failed_step,
                   result, report, files, summary>>

\* for fmt, result in results.items(): ... ; return results
Summarize ==
    /\ apc = "loop"
    /\ Len(attempted) = Len(formats_to_test)
    /\ summary' = [f \in DOMAIN results |->
                      IF results[f] # None
                      THEN detect_format(script, results[f].content)
                      ELSE <<"ERROR">>]
    /\ apc' = "done"
    /\ UNCHANGED <<script, content, pc, counts, format_detected, prev, edit,
                   output_format, attempted, requests, steps_ok, failed_step,
                   result, report, files, results>>

NextAnalyze ==
    \/ CallAnalyze
    \/ OpenDocument
    \/ FirstRequest
    \/ FallbackRequest
    \/ WaitResult
    \/ AnalyzeDetect
    \/ CreateReport
    \/ MakeDirs
    \/ WriteContent
    \/ WriteReport
    \/ ReturnResult
    \/ ReturnNone
    \/ Summarize

SpecAnalyze == InitAnalyze /\ [][NextAnalyze]_vars

-----------------------------------------------------------------------------
(* Claims about analyze_document and run_format_comparison *)

AllSteps == {"open", "request", "result", "detect", "report", "makedirs",
             "write_content", "write_report"}
FallbackSucceeded == Len(requests) = 2 /\ ~requests[2].raised

\* C11: in a call of analyze_document the first request carries the
\* parameters of the requested format; the request with default parameters
\* (no output_content_format) is sent only after that first request raised,
\* and at most once, so a call makes at most two requests; and when all later
\* statements succeed, after a successful fallback as after a successful first
\* request, the detected format and the report are those of the returned
\* content and both files are saved under the requested output_format.
C11_FallbackOnceAfterFirstRaised ==
    /\ Len(requests) <= 2
    /\ Len(requests) >= 1 => requests[1].params = analyze_params(output_format)
    /\ apc = "fallback" => (Len(requests) = 1 /\ requests[1].raised)
    /\ Len(requests) = 2 =>
          /\ requests[1].raised
          /\ requests[2].params = default_params
          /\ "output_content_format" \notin DOMAIN requests[2].params
    /\ (FallbackSucceeded /\ failed_step = "none") =>
          apc \in {"result", "detect", "report", "makedirs", "write_content",
                   "write_report", "return", "loop", "done"}
    /\ apc = "return" =>
          /\ content = result.content
          /\ format_detected = detect_format(script, result.content)
          /\ report = create_report(DocumentPath, result.content,
                                    format_detected, output_format)
          /\ content_file(output_format) \in DOMAIN files
          /\ files[content_file(output_format)] = result.content
          /\ report_file(output_format) \in DOMAIN files
          /\ files[report_file(output_format)] = report
C11_Witness ==
    /\ apc = "return"
    /\ output_format = "html"
    /\ FallbackSucceeded
    /\ requests[1].params.output_content_format = "html"
    /\ files[content_file("html")] = <<"#"," ","-"," ","*">>
    /\ report.requested_format = "html"
    /\ report.analysis = "Markdown"

\* C12: analyze_document never lets an exception reach its caller; it returns
\* the analysis result only when opening the file, a request (first or
\* fallback), waiting for the result, detection, report creation and both
\* file writes succeeded, and None when one of them failed; so
\* run_format_comparison calls it for default, markdown, text, html in this
\* order, cannot stop before all four are done, and returns a dict with
\* exactly these four keys in which a failed format maps to None.
C12_ErrorsBecomeNone ==
    /\ apc # "propagated"
    /\ apc = "return" => (failed_step = "none" /\ AllSteps \subseteq steps_ok)
    /\ apc = "except" => failed_step # "none"
    /\ (apc \in {"loop", "done"} /\ attempted # << >>) =>
          /\ output_format \in DOMAIN results
          /\ results[output_format] # None <=> failed_step = "none"
          /\ failed_step = "none" =>
                (AllSteps \subseteq steps_ok /\ results[output_format] = result)
    /\ attempted = SubSeq(formats_to_test, 1, Len(attempted))
    /\ DOMAIN results \subseteq Range(attempted)
    /\ apc # "done" => ENABLED NextAnalyze
    /\ apc = "done" =>
          /\ attempted = formats_to_test
          /\ DOMAIN results = {"default", "markdown", "text", "html"}
          /\ \A f \in DOMAIN results :
                results[f] = None \/ results[f] \in ServiceResults
C12_Witness ==
    /\ apc = "done"
    /\ DOMAIN results = {"default", "markdown", "text", "html"}
    /\ results["default"] = None
    /\ results["markdown"] # None
    /\ results["text"] = None
    /\ results["html"] # None
    /\ failed_step = "none"

====
